---- MODULE Spec2Model ----
(***************************************************************************)
(* Model of src/main.py: the pipeline driver go(config).                   *)
(*                                                                         *)
(* Encoding of Python values                                               *)
(*  - A Python string that the code takes apart (main.steps) is a sequence *)
(*    of tokens.  The tokens are the six step names, "all", "x" (a word    *)
(*    that is no step name), " " and ",".  No token is a prefix of another *)
(*    and only the token "," contains a comma, so two token sequences are  *)
(*    equal exactly when the strings they spell are equal, and splitting   *)
(*    the string on "," is splitting the sequence on the token ",".        *)
(*  - A file system path is the sequence of its components; an absolute    *)
(*    path starts with the component "/".                                  *)
(*  - An artifact reference "name:tag" is the pair <<name, tag>>.          *)
(*  - An ordered mapping (DictConfig, dict) is a sequence of <<key, value>>*)
(*    pairs.                                                               *)
(***************************************************************************)
EXTENDS Integers, Sequences, FiniteSets, TLC

VARIABLES
    config,        \* the DictConfig hydra hands to go
    environ,       \* os.environ: WANDB_PROJECT and WANDB_RUN_GROUP
    cwd,           \* the process working directory
    pc,            \* position of go
    pos,           \* which of the six "if <step> in active_steps" blocks go is at
    active_steps,  \* local variable active_steps (line 39)
    tmp_dir,       \* local variable tmp_dir (line 42)
    dirs,          \* temporary directories that exist on disk
    rf_config,     \* local variable rf_config (line 96)
    files,         \* files written by go: path, open/closed, content
    runs,          \* log of the calls of mlflow.run, in call order
    error          \* the exception go is ending with, or NoError

vars == <<config, environ, cwd, pc, pos, active_steps, tmp_dir, dirs,
          rf_config, files, runs, error>>

----------------------------------------------------------------------------
(* Bounds and input alphabets *)

MaxLen == 3

StepNames ==
    {"download", "basic_cleaning", "data_check", "data_split",
     "train_random_forest", "test_regression_model"}

Tokens == StepNames \cup {"all", "x", " ", ","}

RECURSIVE SeqsUpTo(_, _)
SeqsUpTo(S, n) ==
    IF n = 0 THEN {<< >>}
    ELSE LET shorter == SeqsUpTo(S, n - 1)
         IN  shorter \cup {Append(s, t) : s \in {u \in shorter : Len(u) = n - 1}, t \in S}

NoError == "none"
Unset == "<unset>"
NoDir == << >>
NoPath == << >>

----------------------------------------------------------------------------
(* The module-level step list, lines 18-27 *)

_stepsWithTest ==
    <<"download", "basic_cleaning", "data_check", "data_split",
      "train_random_forest", "test_regression_model">>

_steps ==
    <<"download", "basic_cleaning", "data_check", "data_split", "train_random_forest">>

BlockOrderSwapped ==
    <<"download", "basic_cleaning", "data_split", "data_check",
      "train_random_forest", "test_regression_model">>

(* The textual order of the six "if ... in active_steps" blocks, lines 54-112 *)
BlockOrder ==
    <<"download", "basic_cleaning", "data_check", "data_split",
      "train_random_forest", "test_regression_model">>

(* str.split(","): the maximal comma-free pieces, in order; the empty string
   gives one empty piece *)
RECURSIVE Split(_)
Split(s) ==
    IF \A i \in 1..Len(s) : s[i] # ","
    THEN <<s>>
    ELSE LET k == CHOOSE i \in 1..Len(s) :
                      s[i] = "," /\ \A j \in 1..(i - 1) : s[j] # ","
         IN  <<SubSeq(s, 1, k - 1)>> \o Split(SubSeq(s, k + 1, Len(s)))

(* a step name as a Python string *)
Str(name) == <<name>>

RECURSIVE MapStr(_)
MapStr(names) ==
    IF names = << >> THEN << >> ELSE <<Str(Head(names))>> \o MapStr(Tail(names))

ActiveStepsNoAll(steps_par) == Split(steps_par)

(* line 39 *)
ActiveSteps(steps_par) ==
    IF steps_par # Str("all") THEN Split(steps_par) ELSE MapStr(_steps)

InAnywhere(name, list) ==
    \E i \in 1..Len(list) : \E k \in 1..Len(list[i]) : list[i][k] = name

(* "<name>" in active_steps: list membership by string equality *)
In(name, list) == \E i \in 1..Len(list) : list[i] = Str(name)

----------------------------------------------------------------------------
(* Directories.  hydra.main runs go in its own run directory, not in the
   directory the program was launched from (comment at lines 65-66);
   hydra.utils.get_original_cwd() is the launch directory. *)

OriginalCwd == <<"/", "project">>
HydraRunDir == <<"/", "project", "outputs", "run">>
TmpPath == <<"/", "tmp", "tmpdir">>

AbsPathRelative(p, dir) == p

(* os.path.abspath(p): p itself when absolute, else p under the working
   directory *)
AbsPath(p, dir) == IF p # << >> /\ p[1] = "/" THEN p ELSE dir \o p

----------------------------------------------------------------------------
(* json.dump(dict(random_forest.items()), fp), line 98.  dict(...items())
   copies the top level only; a value that is still a config node is not
   JSON serializable and makes json.dump raise after the members before it
   have been written. *)

IntVal(n) == [t |-> "int", v |-> n]
NoneVal == [t |-> "none", v |-> 0]
NodeVal == [t |-> "node", v |-> 0]

Serializable(val) == val.t \in {"int", "none"}

JsonValue(val) ==
    IF val.t = "int" THEN [j |-> "number", v |-> val.v] ELSE [j |-> "null", v |-> 0]

RECURSIVE JsonDump(_)
JsonDump(d) ==
    IF d = << >> \/ ~Serializable(Head(d)[2]) THEN << >>
    ELSE <<<<Head(d)[1], JsonValue(Head(d)[2])>>>> \o JsonDump(Tail(d))

DumpRaisesOn(d) == \E i \in 1..Len(d) : ~Serializable(d[i][2])

----------------------------------------------------------------------------
(* The uri and the parameters dictionary of each mlflow.run call *)

Uri(step) ==
    CASE step = "download" -> Append(config.main.components_repository, "get_data")
      [] step = "basic_cleaning" -> OriginalCwd \o <<"src", "basic_cleaning">>
      [] step = "data_check" -> OriginalCwd \o <<"src", "data_check">>
      [] step = "data_split" ->
             Append(config.main.components_repository, "train_val_test_split")
      [] step = "train_random_forest" -> OriginalCwd \o <<"src", "train_random_forest">>
      [] step = "test_regression_model" ->
             Append(config.main.components_repository, "test_regression_model")

(* lines 58-61 *)
DownloadParameters ==
    [sample |-> config.etl.sample,
     artifact_name |-> "sample.csv",
     artifact_type |-> "raw_data",
     artifact_description |-> "Raw file as downloaded"]

BasicCleaningParametersRenamed ==
    [input_artifact |-> <<"sample.csv", "latest">>,
     output_artifact |-> "cleaned.csv",
     output_type |-> "clean_sample",
     output_description |-> "Data with outliers and null values removed",
     min_price |-> config.etl.min_price,
     max_price |-> config.etl.max_price]

(* lines 67-72 *)
BasicCleaningParameters ==
    [input_artifact |-> <<"sample.csv", "latest">>,
     output_artifact |-> "clean_sample.csv",
     output_type |-> "clean_sample",
     output_description |-> "Data with outliers and null values removed",
     min_price |-> config.etl.min_price,
     max_price |-> config.etl.max_price]

(* lines 76-80 *)
DataCheckParameters ==
    [csv |-> <<"clean_sample.csv", "latest">>,
     ref |-> <<"clean_sample.csv", "reference">>,
     kl_threshold |-> config.data_check.kl_threshold,
     min_price |-> config.etl.min_price,
     max_price |-> config.etl.max_price]

(* lines 86-91 *)
DataSplitParameters ==
    [input |-> <<"clean_sample.csv", "latest">>,
     test_size |-> config.modeling.test_size,
     random_seed |-> config.modeling.random_seed,
     stratify_by |-> config.modeling.stratify_by]

(* lines 101-107 *)
TrainRandomForestParameters ==
    [trainval_artifact |-> <<"trainval_data.csv", "latest">>,
     val_size |-> config.modeling.val_size,
     random_seed |-> config.modeling.random_seed,
     stratify_by |-> config.modeling.stratify_by,
     rf_config |-> rf_config,
     max_tfidf_features |-> config.modeling.max_tfidf_features,
     output_artifact |-> "random_forest_export"]

(* lines 111-112 *)
TestRegressionModelParameters ==
    [mlflow_model |-> <<"random_forest_export", "prod">>,
     test_dataset |-> <<"test_data.csv", "latest">>]

Parameters(step) ==
    CASE step = "download" -> DownloadParameters
      [] step = "basic_cleaning" -> BasicCleaningParameters
      [] step = "data_check" -> DataCheckParameters
      [] step = "data_split" -> DataSplitParameters
      [] step = "train_random_forest" -> TrainRandomForestParameters
      [] step = "test_regression_model" -> TestRegressionModelParameters

----------------------------------------------------------------------------
(* Inputs: the configuration and the environment go starts with *)

RECURSIVE Join(_)
Join(names) ==
    IF names = << >> THEN << >>
    ELSE IF Len(names) = 1 THEN <<names[1]>>
    ELSE <<names[1], ",">> \o Join(Tail(names))

RECURSIVE Reverse(_)
Reverse(s) == IF s = << >> THEN << >> ELSE Append(Reverse(Tail(s)), Head(s))

Pick(S) == SelectSeq(BlockOrder, LAMBDA n : n \in S)

(* every string of at most MaxLen tokens, and every selection of step names
   as a comma-separated list, in pipeline order and in reverse order *)
StepsInputs ==
    SeqsUpTo(Tokens, MaxLen)
        \cup {Join(Pick(S)) : S \in SUBSET StepNames}
        \cup {Join(Reverse(Pick(S))) : S \in SUBSET StepNames}

RFConfigs ==
    { << >>,
      << <<"n_estimators", IntVal(100)>>, <<"max_depth", NoneVal>> >>,
      << <<"n_estimators", IntVal(100)>>, <<"nested", NodeVal>>,
         <<"max_depth", IntVal(15)>> >> }

MkConfig(steps, rf) ==
    [main |-> [project_name |-> "nyc_airbnb",
               experiment_name |-> "development",
               steps |-> steps,
               components_repository |-> <<"https://components">>],
     etl |-> [sample |-> "sample1.csv", min_price |-> "10", max_price |-> "350"],
     data_check |-> [kl_threshold |-> "0.2"],
     modeling |-> [test_size |-> "0.2",
                   val_size |-> "0.2",
                   random_seed |-> "42",
                   stratify_by |-> "neighbourhood_group",
                   max_tfidf_features |-> "5",
                   random_forest |-> rf]]

Environs ==
    {[WANDB_PROJECT |-> Unset, WANDB_RUN_GROUP |-> Unset],
     [WANDB_PROJECT |-> "stale_project", WANDB_RUN_GROUP |-> "stale_group"]}

Init ==
    /\ config \in {MkConfig(s, rf) : s \in StepsInputs, rf \in RFConfigs}
    /\ environ \in Environs
    /\ cwd = HydraRunDir
    /\ pc = "env_project"
    /\ pos = 1
    /\ active_steps = << >>
    /\ tmp_dir = NoDir
    /\ dirs = {}
    /\ rf_config = NoPath
    /\ files = << >>
    /\ runs = << >>
    /\ error = NoError

----------------------------------------------------------------------------
(* go, lines 32-112 *)

(* line 34 *)
SetWandbProject ==
    /\ pc = "env_project"
    /\ environ' = [environ EXCEPT !.WANDB_PROJECT = config.main.project_name]
    /\ pc' = "env_group"
    /\ UNCHANGED <<config, cwd, pos, active_steps, tmp_dir, dirs, rf_config,
                   files, runs, error>>

SetWandbRunGroupAsProject ==
    /\ pc = "env_group"
    /\ environ' = [environ EXCEPT !.WANDB_PROJECT = config.main.experiment_name]
    /\ pc' = "select"
    /\ UNCHANGED <<config, cwd, pos, active_steps, tmp_dir, dirs, rf_config,
                   files, runs, error>>

(* line 35 *)
SetWandbRunGroup ==
    /\ pc = "env_group"
    /\ environ' = [environ EXCEPT !.WANDB_RUN_GROUP = config.main.experiment_name]
    /\ pc' = "select"
    /\ UNCHANGED <<config, cwd, pos, active_steps, tmp_dir, dirs, rf_config,
                   files, runs, error>>

(* lines 38-39 *)
SelectSteps ==
    /\ pc = "select"
    /\ active_steps' = ActiveSteps(config.main.steps)
    /\ pc' = "enter_tmp"
    /\ UNCHANGED <<config, environ, cwd, pos, tmp_dir, dirs, rf_config, files,
                   runs, error>>

(* line 42, entering the with block: the directory is created and its name
   bound to tmp_dir; the working directory is not changed *)
EnterTmpDir ==
    /\ pc = "enter_tmp"
    /\ tmp_dir' = TmpPath
    /\ dirs' = dirs \cup {TmpPath}
    /\ pos' = 1
    /\ pc' = "if_step"
    /\ UNCHANGED <<config, environ, cwd, active_steps, rf_config, files, runs, error>>

(* the position after the block at position i *)
NextPos(i) == i + 1

(* an "if" whose condition is false, lines 54, 63, 74, 82, 94, 109 *)
SkipStep ==
    /\ pc = "if_step"
    /\ pos <= Len(BlockOrder)
    /\ ~In(BlockOrder[pos], active_steps)
    /\ pos' = NextPos(pos)
    /\ UNCHANGED <<config, environ, cwd, pc, active_steps, tmp_dir, dirs,
                   rf_config, files, runs, error>>

(* line 94 true, line 96 *)
ResolveRfConfig ==
    /\ pc = "if_step"
    /\ pos <= Len(BlockOrder)
    /\ BlockOrder[pos] = "train_random_forest"
    /\ In(BlockOrder[pos], active_steps)
    /\ rf_config' = AbsPath(<<"rf_config.json">>, cwd)
    /\ pc' = "rf_open"
    /\ UNCHANGED <<config, environ, cwd, pos, active_steps, tmp_dir, dirs,
                   files, runs, error>>

WriteFile(path, state, content) ==
    [p \in DOMAIN files \cup {path} |->
        IF p = path THEN [state |-> state, content |-> content] ELSE files[p]]

(* line 97: open(rf_config, "w+") creates or truncates the file *)
OpenRfConfig ==
    /\ pc = "rf_open"
    /\ files' = WriteFile(rf_config, "open", << >>)
    /\ pc' = "rf_dump"
    /\ UNCHANGED <<config, environ, cwd, pos, active_steps, tmp_dir, dirs,
                   rf_config, runs, error>>

(* line 98, json.dump returns *)
DumpRfConfig ==
    /\ pc = "rf_dump"
    /\ ~DumpRaisesOn(config.modeling.random_forest)
    /\ files' = WriteFile(rf_config, "open", JsonDump(config.modeling.random_forest))
    /\ pc' = "rf_close"
    /\ UNCHANGED <<config, environ, cwd, pos, active_steps, tmp_dir, dirs,
                   rf_config, runs, error>>

(* line 98, json.dump raises: the with of line 97 closes the file on the way
   out *)
DumpRfConfigRaises ==
    /\ pc = "rf_dump"
    /\ DumpRaisesOn(config.modeling.random_forest)
    /\ files' = WriteFile(rf_config, "closed", JsonDump(config.modeling.random_forest))
    /\ error' = "TypeError"
    /\ pc' = "raise"
    /\ UNCHANGED <<config, environ, cwd, pos, active_steps, tmp_dir, dirs,
                   rf_config, runs>>

(* leaving the with of line 97 *)
CloseRfConfig ==
    /\ pc = "rf_close"
    /\ files' = WriteFile(rf_config, "closed", files[rf_config].content)
    /\ pc' = "call_train"
    /\ UNCHANGED <<config, environ, cwd, pos, active_steps, tmp_dir, dirs,
                   rf_config, runs, error>>

(* mlflow.run(uri, "main", parameters=...) is called: lines 55, 64, 75, 83,
   100, 110.  The call is synchronous; the run it starts inherits the
   environment and the working directory of the caller. *)
Call(step) ==
    /\ runs' = Append(runs, [step |-> step,
                             uri |-> Uri(step),
                             entry_point |-> "main",
                             parameters |-> Parameters(step),
                             environ |-> environ,
                             cwd |-> cwd,
                             status |-> "running"])
    /\ pc' = "running"
    /\ UNCHANGED <<config, environ, cwd, pos, active_steps, tmp_dir, dirs,
                   rf_config, files, error>>

StartRun ==
    /\ pc = "if_step"
    /\ pos <= Len(BlockOrder)
    /\ BlockOrder[pos] # "train_random_forest"
    /\ In(BlockOrder[pos], active_steps)
    /\ Call(BlockOrder[pos])

(* line 100 *)
StartTrainRun ==
    /\ pc = "call_train"
    /\ Call(BlockOrder[pos])

(* mlflow.run returns: the run finished successfully *)
RunReturns ==
    /\ pc = "running"
    /\ runs' = [runs EXCEPT ![Len(runs)].status = "finished"]
    /\ pos' = NextPos(pos)
    /\ pc' = "if_step"
    /\ UNCHANGED <<config, environ, cwd, active_steps, tmp_dir, dirs, rf_config,
                   files, error>>

RunRaisesSwallowed ==
    /\ pc = "running"
    /\ runs' = [runs EXCEPT ![Len(runs)].status = "failed"]
    /\ pos' = NextPos(pos)
    /\ pc' = "if_step"
    /\ UNCHANGED <<config, environ, cwd, active_steps, tmp_dir, dirs, rf_config,
                   files, error>>

RunRaisesRetry ==
    /\ pc = "running"
    /\ runs' = [runs EXCEPT ![Len(runs)].status = "failed"]
    /\ IF Len(runs) = 1 \/ runs[Len(runs) - 1].step # runs[Len(runs)].step
       THEN pc' = "if_step" /\ error' = error
       ELSE pc' = "raise" /\ error' = "ExecutionException"
    /\ UNCHANGED <<config, environ, cwd, pos, active_steps, tmp_dir, dirs,
                   rf_config, files>>

(* mlflow.run raises: the run failed *)
RunRaises ==
    /\ pc = "running"
    /\ runs' = [runs EXCEPT ![Len(runs)].status = "failed"]
    /\ error' = "ExecutionException"
    /\ pc' = "raise"
    /\ UNCHANGED <<config, environ, cwd, pos, active_steps, tmp_dir, dirs,
                   rf_config, files>>

(* leaving the with of line 42, after the last block or with an exception:
   TemporaryDirectory removes the directory *)
ExitTmpDir ==
    /\ \/ pc = "if_step" /\ pos > Len(BlockOrder)
       \/ pc = "raise"
    /\ dirs' = dirs \ {tmp_dir}
    /\ pc' = IF error = NoError THEN "done" ELSE "failed"
    /\ UNCHANGED <<config, environ, cwd, pos, active_steps, tmp_dir, rf_config,
                   files, runs, error>>

Next ==
    \/ SetWandbProject
    \/ SetWandbRunGroup
    \/ SelectSteps
    \/ EnterTmpDir
    \/ SkipStep
    \/ ResolveRfConfig
    \/ OpenRfConfig
    \/ DumpRfConfig
    \/ DumpRfConfigRaises
    \/ CloseRfConfig
    \/ StartRun
    \/ StartTrainRun
    \/ RunReturns
    \/ RunRaises
    \/ ExitTmpDir

Spec == Init /\ [][Next]_vars

----------------------------------------------------------------------------
(* Vocabulary of the properties *)

PipelineOrder ==
    <<"download", "basic_cleaning", "data_check", "data_split",
      "train_random_forest", "test_regression_model">>

OrderIndex(name) == CHOOSE i \in 1..Len(PipelineOrder) : PipelineOrder[i] = name

Dispatched == {runs[k].step : k \in 1..Len(runs)}

steps_par == config.main.steps

IsAll == steps_par = <<"all">>

(* name is a whole element of the comma-separated string s: it stands
   between two commas, or between a comma and an end of s *)
WholeElement(name, s) ==
    \E k \in 1..Len(s) :
        /\ s[k] = name
        /\ k = 1 \/ s[k - 1] = ","
        /\ k = Len(s) \/ s[k + 1] = ","

Named(name) == ~IsAll /\ WholeElement(name, steps_par)

IsPrefix(a, b) == Len(a) <= Len(b) /\ SubSeq(b, 1, Len(a)) = a

InputKeys ==
    {"input_artifact", "csv", "ref", "input", "trainval_artifact",
     "mlflow_model", "test_dataset"}
OutputKeys == {"artifact_name", "output_artifact"}

Inputs(run) == {run.parameters[k][1] : k \in DOMAIN run.parameters \cap InputKeys}
Outputs(run) == {run.parameters[k] : k \in DOMAIN run.parameters \cap OutputKeys}

ProducedBefore(a, k) == \E j \in 1..(k - 1) : a \in Outputs(runs[j])

AllSixNamed == \A n \in StepNames : Named(n)

(* a Python value read back from its JSON form *)
FromJson(jv) == IF jv.j = "number" THEN [t |-> "int", v |-> jv.v] ELSE [t |-> "none", v |-> 0]

----------------------------------------------------------------------------
(* C1: whatever the steps parameter, the runs of one invocation are
   dispatched in the fixed pipeline order: of two dispatches, the earlier
   one is of the step that comes first in download, basic_cleaning,
   data_check, data_split, train_random_forest, test_regression_model. *)
C1_FixedOrder ==
    \A j, k \in 1..Len(runs) :
        j < k => OrderIndex(runs[j].step) < OrderIndex(runs[k].step)

(* a list naming two steps in reverse order, both dispatched *)
C1_Witness ==
    /\ steps_par = <<"basic_cleaning", ",", "download">>
    /\ Len(runs) = 2
    /\ runs[1].step = "download"
    /\ runs[2].step = "basic_cleaning"

(* C2: with a comma-separated steps parameter (not "all"), an invocation
   that ends without error has dispatched exactly the step names that are a
   whole element of the list. *)
C2_ExactlyNamed ==
    (pc = "done" /\ ~IsAll) =>
        Dispatched = {n \in StepNames : WholeElement(n, steps_par)}

(* "all" inside a longer list selects nothing; the named step is run *)
C2_Witness ==
    /\ steps_par = <<"all", ",", "download">>
    /\ pc = "done"
    /\ Dispatched = {"download"}

(* C3: test_regression_model is dispatched only when the steps parameter
   names it as a list element; with steps "all" an invocation that ends
   without error has dispatched exactly the five other steps. *)
C3_TestOnlyExplicit ==
    /\ "test_regression_model" \in Dispatched => Named("test_regression_model")
    /\ (IsAll /\ pc = "done") =>
           Dispatched = {"download", "basic_cleaning", "data_check", "data_split",
                         "train_random_forest"}

C3_Witness ==
    /\ IsAll
    /\ pc = "done"
    /\ "train_random_forest" \in Dispatched
    /\ "test_regression_model" \notin Dispatched

(* C4 as stated: a full pipeline invocation (steps "all", every run
   succeeding) calls the run function six times, once for each of the six
   steps. *)
C4_SixRuns ==
    (IsAll /\ pc = "done") => (Len(runs) = 6 /\ Dispatched = StepNames)

(* C4 amended: a full pipeline invocation calls the run function five
   times, once for each of download, basic_cleaning, data_check, data_split
   and train_random_forest, in that order, each a separate finished run;
   test_regression_model is not among them. *)
C4_FiveRuns ==
    (IsAll /\ pc = "done") =>
        /\ Len(runs) = 5
        /\ \A k \in 1..5 : runs[k].step = PipelineOrder[k] /\ runs[k].status = "finished"

C4_Witness ==
    /\ IsAll
    /\ pc = "done"
    /\ Len(runs) = 5

(* C5: dispatch is sequential and stops at the first failure: every run
   but the last one dispatched has finished successfully, at most one run is
   in progress, and once a run has failed it stays the last one and go is
   ending with its error. *)
C5_StopAtFirstFailure ==
    /\ \A k \in 1..(Len(runs) - 1) : runs[k].status = "finished"
    /\ Cardinality({k \in 1..Len(runs) : runs[k].status = "running"}) <= 1
    /\ \A k \in 1..Len(runs) :
           runs[k].status = "failed" =>
               /\ k = Len(runs)
               /\ pc \in {"raise", "failed"}
               /\ error = "ExecutionException"
    /\ pc = "done" => \A k \in 1..Len(runs) : runs[k].status = "finished"

(* the second of five selected steps failed and go has ended *)
C5_Witness ==
    /\ IsAll
    /\ pc = "failed"
    /\ Len(runs) = 2
    /\ runs[1].status = "finished"
    /\ runs[2].status = "failed"

(* C6: in one invocation no step is dispatched twice, so there are at
   most six runs. *)
C6_AtMostOnce ==
    /\ \A j, k \in 1..Len(runs) : runs[j].step = runs[k].step => j = k
    /\ Len(runs) <= 6

(* a step named twice has run once, and the invocation is over *)
C6_Witness ==
    /\ steps_par = <<"download", ",", "download">>
    /\ pc = "done"
    /\ Len(runs) = 1

(* C7 as stated: at every dispatch and when rf_config.json is written the
   working directory is the temporary directory created by go, and the
   directory is removed when go leaves the block. *)
C7_InTmpDir ==
    /\ \A k \in 1..Len(runs) : runs[k].cwd = tmp_dir
    /\ \A p \in DOMAIN files : IsPrefix(tmp_dir, p)
    /\ pc \in {"done", "failed"} => tmp_dir \notin dirs

(* C8: whenever train_random_forest has been dispatched, rf_config.json is
   written and closed with the JSON form of modeling.random_forest, and the
   rf_config parameter of the run is the absolute path of that file; when
   train_random_forest is not selected no file is written. *)
C8_RfConfigWritten ==
    /\ \A k \in 1..Len(runs) :
           runs[k].step = "train_random_forest" =>
               LET path == runs[k].parameters.rf_config
                   rf == config.modeling.random_forest
               IN  /\ path # << >>
                   /\ path[1] = "/"
                   /\ path[Len(path)] = "rf_config.json"
                   /\ path \in DOMAIN files
                   /\ files[path].state = "closed"
                   /\ Len(files[path].content) = Len(rf)
                   /\ \A i \in 1..Len(rf) :
                          /\ files[path].content[i][1] = rf[i][1]
                          /\ FromJson(files[path].content[i][2]) = rf[i][2]
    /\ ~(IsAll \/ Named("train_random_forest")) => DOMAIN files = {}

C8_Witness ==
    /\ Len(runs) >= 1
    /\ runs[Len(runs)].step = "train_random_forest"
    /\ Len(config.modeling.random_forest) = 2

(* C9: at every dispatch WANDB_PROJECT and WANDB_RUN_GROUP hold
   main.project_name and main.experiment_name, and go keeps them so from the
   moment it has set them. *)
C9_WandbGroup ==
    /\ \A k \in 1..Len(runs) :
           /\ runs[k].environ.WANDB_PROJECT = config.main.project_name
           /\ runs[k].environ.WANDB_RUN_GROUP = config.main.experiment_name
    /\ pc \notin {"env_project", "env_group"} =>
           /\ environ.WANDB_PROJECT = config.main.project_name
           /\ environ.WANDB_RUN_GROUP = config.main.experiment_name

C9_Witness ==
    /\ Len(runs) = 2
    /\ runs[1].environ.WANDB_RUN_GROUP = "development"
    /\ runs[2].environ.WANDB_PROJECT = "nyc_airbnb"
    /\ pc = "running"

(* C10 as stated: in an invocation that selects all six steps, every
   artifact a dispatched step is told to read was named as the output
   artifact of an earlier dispatch. *)
C10_AllInputsProduced ==
    AllSixNamed =>
        \A k \in 1..Len(runs) : \A a \in Inputs(runs[k]) : ProducedBefore(a, k)

(* C10 amended: in an invocation that selects all six steps, every
   artifact a dispatched step is told to read, other than trainval_data.csv
   and test_data.csv, was named as the output artifact of an earlier
   dispatch; trainval_data.csv and test_data.csv are named as output in the
   parameters of no dispatch. *)
C10_NamedInputsProduced ==
    AllSixNamed =>
        /\ \A k \in 1..Len(runs) :
               \A a \in Inputs(runs[k]) \ {"trainval_data.csv", "test_data.csv"} :
                   ProducedBefore(a, k)
        /\ \A k \in 1..Len(runs) :
               Outputs(runs[k]) \cap {"trainval_data.csv", "test_data.csv"} = {}

C10_Witness ==
    /\ AllSixNamed
    /\ pc = "done"
    /\ Len(runs) = 6
    /\ "random_forest_export" \in Inputs(runs[6])

====
